---------------------------- MODULE Spec2Model ----------------------------
(***************************************************************************)
(* Model of the South African ID number validation utility                 *)
(* (validateSAID, saIdValidation.ts).                                      *)
(*                                                                         *)
(* A string is a sequence of one-character strings.  validateSAID is a     *)
(* pure function; it is an operator here, written stage by stage as the    *)
(* source is, and the specification applies it to inputs drawn from a      *)
(* bounded set.                                                            *)
(***************************************************************************)
EXTENDS Integers, Sequences, FiniteSets, TLC

\* input: the argument of the call; pc: "call" before validateSAID or
\* formatSAID has run on it, "done" after validateSAID, "formatted" after
\* formatSAID; result: the object validateSAID returned; formatted: the
\* string formatSAID returned
VARIABLES input, pc, result, formatted

\* the variables of the calls of validateSAID and formatSAID
callVars == <<input, pc, result, formatted>>

\* The state of IdValidationProvider: ctxIdNumber is its idNumber;
\* isValidating, validationResult and apiResponse are its other three
\* states.  pending holds the remote requests that have not settled, in the
\* order of the calls.  featureUsage and performanceMetrics are the fields
\* of the ContextAwarenessSystem singleton: the own properties of the two
\* objects.  objectPrototype holds, for the property names every object
\* inherits, the count property of the inherited value.  calls is the
\* history of the singleton: the number of trackFeatureUsage calls made
\* with each name.
VARIABLES ctxIdNumber, isValidating, validationResult, apiResponse, pending,
          featureUsage, performanceMetrics, objectPrototype, calls

\* the variables of the singleton
telemetryVars == <<featureUsage, performanceMetrics, objectPrototype, calls>>

\* the states of the provider
providerVars == <<ctxIdNumber, isValidating, validationResult, apiResponse, pending>>

ctxVars == <<ctxIdNumber, isValidating, validationResult, apiResponse, pending,
             featureUsage, performanceMetrics, objectPrototype, calls>>

\* The arrays of ROIRepository and of its caller: arrays maps each array
\* to its elements; allAnalyses is the array the caller got from its last
\* getAllAnalyses(), NoArray before the first; addedAnalyses is the history of the
\* repository: the analyses passed to addAnalysis, in the order of the calls.
VARIABLES arrays, allAnalyses, addedAnalyses

repoVars == <<arrays, allAnalyses, addedAnalyses>>

\* The state of IdValidationForm: showDetails.  resultFor and responseFor
\* are the history of the provider's validationResult and apiResponse: the
\* idNumber each one was produced for, NoId while it is null.
VARIABLES showDetails, resultFor, responseFor

formVars == <<showDetails, resultFor, responseFor>>

vars == <<input, pc, result, formatted, ctxIdNumber, isValidating,
          validationResult, apiResponse, pending, featureUsage,
          performanceMetrics, objectPrototype, calls, arrays, allAnalyses,
          addedAnalyses, showDetails, resultFor, responseFor>>

---------------------------------------------------------------------------
(* Bounds of the enumerated inputs. *)

\* months 00..MaxMonth are enumerated in the MM field
MaxMonth == 13
\* days 00..MaxDay are enumerated in the DD field
MaxDay == 32
\* citizenship digits 0..MaxCitizenship are enumerated
MaxCitizenship == 2
\* strings of length 0..MaxLen are enumerated
MaxLen == 15
\* at most MaxPending remote requests are in flight at a time
MaxPending == 2
\* a feature is tracked at most MaxUsage times
MaxUsage == 2
\* at most MaxAnalyses analyses are added to the repository
MaxAnalyses == 2

\* two-digit years of the enumerated inputs: 2000 and 2024 are leap years,
\* 1950, 1990 and 2049 are not; 49/50 is the century threshold
YearSamples == {0, 24, 49, 50, 90}
\* four-digit sequence numbers of the enumerated inputs; 4999/5000 is the
\* gender threshold
SequenceSamples == {4800, 4999, 5000, 5012}
\* legacy classification digits of the enumerated inputs
LegacySamples == {8}

---------------------------------------------------------------------------
(* Characters and strings. *)

DigitChars == <<"0", "1", "2", "3", "4", "5", "6", "7", "8", "9">>

DigitSet == {DigitChars[i] : i \in 1..10}

\* characters that are not ASCII digits; none of them is white space, a
\* sign or a radix prefix, for which parseInt has special cases
NonDigitChars == {"A", "."}

DigitChar(n) == DigitChars[n + 1]

DigitValue(c) == CHOOSE n \in 0..9 : DigitChars[n + 1] = c

\* the string of a sequence of digit values
ToStr(ds) == [i \in 1..Len(ds) |-> DigitChar(ds[i])]

Pad2(n) == <<DigitChar((n \div 10) % 10), DigitChar(n % 10)>>

Pad4(n) == Pad2(n \div 100) \o Pad2(n % 100)

Min(a, b) == IF a < b THEN a ELSE b

\* String.prototype.substring(a, b) for 0 <= a <= b: indices are clamped
\* to the length of the string
substring(s, a, b) == SubSeq(s, Min(a, Len(s)) + 1, Min(b, Len(s)))

\* String.prototype.charAt(i): the empty string when i is out of range
charAt(s, i) == IF i >= 0 /\ i < Len(s) THEN <<s[i + 1]>> ELSE <<>>

---------------------------------------------------------------------------
(* JavaScript numbers: the integers and NaN. *)

NaN == -1000000

JsAdd(a, b) == IF a = NaN \/ b = NaN THEN NaN ELSE a + b

JsSub(a, b) == IF a = NaN \/ b = NaN THEN NaN ELSE a - b

JsMul(a, b) == IF a = NaN \/ b = NaN THEN NaN ELSE a * b

\* the % of JavaScript for a non-negative left operand
JsMod(a, b) == IF a = NaN \/ b = NaN THEN NaN ELSE a % b

\* a < b, a > b: false when an operand is NaN
JsLt(a, b) == a # NaN /\ b # NaN /\ a < b

JsGt(a, b) == a # NaN /\ b # NaN /\ a > b

JsGe(a, b) == a # NaN /\ b # NaN /\ a >= b

\* a !== b: true when an operand is NaN
JsNe(a, b) == a = NaN \/ b = NaN \/ a # b

RECURSIVE ParseDigits(_, _, _)
ParseDigits(s, i, acc) ==
    IF i > Len(s) \/ s[i] \notin DigitSet
    THEN acc
    ELSE ParseDigits(s, i + 1, acc * 10 + DigitValue(s[i]))

\* parseInt(s): the value of the longest prefix of decimal digits, NaN when
\* there is none
ParseInt(s) ==
    IF Len(s) = 0 \/ s[1] \notin DigitSet THEN NaN ELSE ParseDigits(s, 1, 0)

---------------------------------------------------------------------------
(* The Date of JavaScript, as far as validateSAID uses it: the local        *)
(* calendar date that new Date(year, monthIndex, day) denotes, read back    *)
(* with getFullYear, getMonth and getDate.                                  *)

InvalidDate == [kind |-> "Date", year |-> NaN, month |-> NaN, date |-> NaN]

\* the value of a property that is not set
Undefined == "undefined"

\* the value of birthDate when it is not set
UndefinedDate == [kind |-> "undefined"]

\* a calendar without the rule for the years divisible by 400
IsLeapYear_NoFourHundred(y) == y % 4 = 0 /\ y % 100 # 0

IsLeapYear(y) == (y % 4 = 0 /\ y % 100 # 0) \/ y % 400 = 0

\* days of the month with index m (0 = January) of year y
DaysInMonth(y, m) ==
    IF m = 1 THEN (IF IsLeapYear(y) THEN 29 ELSE 28)
    ELSE IF m \in {3, 5, 8, 10} THEN 30
    ELSE 31

\* a day below 1 or above the length of the month carries into the
\* neighbouring months
RECURSIVE RollDay(_, _, _)
RollDay(y, m, d) ==
    IF d < 1
    THEN LET py == IF m = 0 THEN y - 1 ELSE y
             pm == IF m = 0 THEN 11 ELSE m - 1
         IN  RollDay(py, pm, d + DaysInMonth(py, pm))
    ELSE IF d > DaysInMonth(y, m)
    THEN LET ny == IF m = 11 THEN y + 1 ELSE y
             nm == IF m = 11 THEN 0 ELSE m + 1
         IN  RollDay(ny, nm, d - DaysInMonth(y, m))
    ELSE [kind |-> "Date", year |-> y, month |-> m, date |-> d]

\* new Date(year, monthIndex, day): a year of 0..99 means 1900 + year, a
\* month index outside 0..11 carries into the year, then the day carries.
\* The local time zone is one in which every calendar day has a midnight
\* or a first instant on that day, so the getters read the same day back.
NewDate(year, monthIndex, day) ==
    IF year = NaN \/ monthIndex = NaN \/ day = NaN
    THEN InvalidDate
    ELSE LET y0 == IF year >= 0 /\ year <= 99 THEN 1900 + year ELSE year
         IN  RollDay(y0 + (monthIndex \div 12), monthIndex % 12, day)

getFullYear(d) == d.year

getMonth(d) == d.month

getDate(d) == d.date

---------------------------------------------------------------------------
(* validateSAID. *)

MsgNonEmpty == "ID number must be a non-empty string"

MsgLength == "ID number must be exactly 13 digits"

MsgCharset == "ID number must contain only digits"

MsgDate == "Invalid date of birth in ID number"

MsgCitizenship == "Citizenship digit must be 0 or 1"

MsgChecksum == "ID number has an invalid checksum"

\* !idNumber, for a string: the empty string is the only falsy one
isEmptyInput(idNumber) == Len(idNumber) = 0

\* a length check that lets a string of more than 13 characters through
lengthCheckFails_ShortOnly(idNumber) == Len(idNumber) < 13

\* idNumber.length !== 13
lengthCheckFails(idNumber) == Len(idNumber) # 13

\* a pattern without the anchor at the end and the repetition, /^\d/
testDigitsOnly_FirstChar(idNumber) ==
    Len(idNumber) >= 1 /\ idNumber[1] \in DigitSet

\* /^\d+$/.test(idNumber): one or more characters, each an ASCII digit
testDigitsOnly(idNumber) ==
    Len(idNumber) >= 1 /\ \A i \in 1..Len(idNumber) : idNumber[i] \in DigitSet

\* an early return that leaves the message out
earlyReturn_NoMessage(errors) ==
    [isValid |-> FALSE, errors |-> <<>>, birthDate |-> UndefinedDate,
     gender |-> Undefined, citizenshipStatus |-> Undefined]

\* return { isValid: false, errors } of the three format checks
earlyReturn(errors) ==
    [isValid |-> FALSE, errors |-> errors, birthDate |-> UndefinedDate,
     gender |-> Undefined, citizenshipStatus |-> Undefined]

\* the extracted components
yearOf(idNumber) == ParseInt(substring(idNumber, 0, 2))

monthOf(idNumber) == ParseInt(substring(idNumber, 2, 4))

dayOf(idNumber) == ParseInt(substring(idNumber, 4, 6))

genderOf(idNumber) == ParseInt(substring(idNumber, 6, 10))

citizenshipOf(idNumber) == ParseInt(substring(idNumber, 10, 11))

\* a check digit read one index too far left
checksumOf_LegacyDigit(idNumber) == ParseInt(substring(idNumber, 11, 12))

checksumOf(idNumber) == ParseInt(substring(idNumber, 12, 13))

\* a century threshold that is one too high
fullYearOf_Threshold(year) ==
    IF JsLt(year, 51) THEN JsAdd(2000, year) ELSE JsAdd(1900, year)

\* year < 50 ? 2000 + year : 1900 + year
fullYearOf(year) == IF JsLt(year, 50) THEN JsAdd(2000, year) ELSE JsAdd(1900, year)

\* a date check without the comparisons with the constructed date
dateCheckFails_RangeOnly(birthDate, fullYear, month, day) ==
    \/ JsLt(month, 1)
    \/ JsGt(month, 12)
    \/ JsLt(day, 1)
    \/ JsGt(day, 31)

\* the condition under which the date error is pushed
dateCheckFails(birthDate, fullYear, month, day) ==
    \/ JsNe(getFullYear(birthDate), fullYear)
    \/ JsNe(getMonth(birthDate), JsSub(month, 1))
    \/ JsNe(getDate(birthDate), day)
    \/ JsLt(month, 1)
    \/ JsGt(month, 12)
    \/ JsLt(day, 1)
    \/ JsGt(day, 31)

\* a citizenship check that only rejects the digits above 2
citizenshipCheckFails_Range(citizenship) == ~JsLt(citizenship, 3)

\* citizenship !== 0 && citizenship !== 1
citizenshipCheckFails(citizenship) == JsNe(citizenship, 0) /\ JsNe(citizenship, 1)

\* the loop without the digit sum of a doubled digit: no "digit -= 9"
RECURSIVE luhnLoop_NoDigitSum(_, _, _, _)
luhnLoop_NoDigitSum(idNumber, i, sum, alternate) ==
    IF i < 0
    THEN sum
    ELSE LET digit == ParseInt(charAt(idNumber, i))
             counted == IF alternate THEN JsMul(digit, 2) ELSE digit
         IN  luhnLoop_NoDigitSum(idNumber, i - 1, JsAdd(sum, counted), ~alternate)

\* the loop of the checksum, from index i down to 0
RECURSIVE luhnLoop(_, _, _, _)
luhnLoop(idNumber, i, sum, alternate) ==
    IF i < 0
    THEN sum
    ELSE LET digit == ParseInt(charAt(idNumber, i))
             doubled == JsMul(digit, 2)
             added == IF alternate
                      THEN (IF JsGt(doubled, 9) THEN JsSub(doubled, 9) ELSE doubled)
                      ELSE digit
         IN  luhnLoop(idNumber, i - 1, JsAdd(sum, added), ~alternate)

\* a loop that stops at i > 0 and never reaches the first digit
luhnSum_StopsBeforeFirst(idNumber) ==
    luhnLoop(SubSeq(idNumber, 2, Len(idNumber)), Len(idNumber) - 3, 0, FALSE)

\* a loop that starts with alternate = true
luhnSum_AlternateFirst(idNumber) == luhnLoop(idNumber, Len(idNumber) - 2, 0, TRUE)

\* the sum of the loop: it starts at index length - 2 with alternate = false
luhnSum(idNumber) == luhnLoop(idNumber, Len(idNumber) - 2, 0, FALSE)

\* a check digit without the final % 10: 10 when the sum is a multiple of 10
calculatedChecksum_NoFinalMod(idNumber) == JsSub(10, JsMod(luhnSum(idNumber), 10))

\* (10 - (sum % 10)) % 10
calculatedChecksum(idNumber) == JsMod(JsSub(10, JsMod(luhnSum(idNumber), 10)), 10)

\* calculatedChecksum !== checksum
checksumCheckFails(idNumber) == JsNe(calculatedChecksum(idNumber), checksumOf(idNumber))

\* the checksum check placed before the citizenship check
pushErrors_ChecksumSecond(dateFails, citizenshipFails, checksumFails) ==
    (IF dateFails THEN <<MsgDate>> ELSE <<>>)
    \o (IF checksumFails THEN <<MsgChecksum>> ELSE <<>>)
    \o (IF citizenshipFails THEN <<MsgCitizenship>> ELSE <<>>)

\* checks chained by else: the first failure hides the later ones
pushErrors_FirstOnly(dateFails, citizenshipFails, checksumFails) ==
    IF dateFails THEN <<MsgDate>>
    ELSE IF citizenshipFails THEN <<MsgCitizenship>>
    ELSE IF checksumFails THEN <<MsgChecksum>>
    ELSE <<>>

\* the errors pushed by the date, citizenship and checksum checks, in the
\* order of the pushes
pushErrors(dateFails, citizenshipFails, checksumFails) ==
    (IF dateFails THEN <<MsgDate>> ELSE <<>>)
    \o (IF citizenshipFails THEN <<MsgCitizenship>> ELSE <<>>)
    \o (IF checksumFails THEN <<MsgChecksum>> ELSE <<>>)

\* a gender threshold that counts 5000 as Female
assembleResult_GenderStrict(errors, birthDate, gender, citizenship) ==
    [isValid |-> Len(errors) = 0,
     errors |-> errors,
     birthDate |-> IF Len(errors) = 0 THEN birthDate ELSE UndefinedDate,
     gender |-> IF Len(errors) = 0
                THEN (IF JsGt(gender, 5000) THEN "Male" ELSE "Female")
                ELSE Undefined,
     citizenshipStatus |-> IF Len(errors) = 0
                           THEN (IF citizenship = 0 THEN "Citizen"
                                 ELSE "Permanent Resident")
                           ELSE Undefined]

\* a result that carries the constructed date whatever the errors
assembleResult_KeepsBirthDate(errors, birthDate, gender, citizenship) ==
    [isValid |-> Len(errors) = 0,
     errors |-> errors,
     birthDate |-> birthDate,
     gender |-> IF Len(errors) = 0
                THEN (IF JsGe(gender, 5000) THEN "Male" ELSE "Female")
                ELSE Undefined,
     citizenshipStatus |-> IF Len(errors) = 0
                           THEN (IF citizenship = 0 THEN "Citizen"
                                 ELSE "Permanent Resident")
                           ELSE Undefined]

\* the returned object, from the errors and the extracted values
assembleResult(errors, birthDate, gender, citizenship) ==
    [isValid |-> Len(errors) = 0,
     errors |-> errors,
     birthDate |-> IF Len(errors) = 0 THEN birthDate ELSE UndefinedDate,
     gender |-> IF Len(errors) = 0
                THEN (IF JsGe(gender, 5000) THEN "Male" ELSE "Female")
                ELSE Undefined,
     citizenshipStatus |-> IF Len(errors) = 0
                           THEN (IF citizenship = 0 THEN "Citizen"
                                 ELSE "Permanent Resident")
                           ELSE Undefined]

validateSAID(idNumber) ==
    IF isEmptyInput(idNumber) THEN earlyReturn(<<MsgNonEmpty>>)
    ELSE IF lengthCheckFails(idNumber) THEN earlyReturn(<<MsgLength>>)
    ELSE IF ~testDigitsOnly(idNumber) THEN earlyReturn(<<MsgCharset>>)
    ELSE LET month == monthOf(idNumber)
             day == dayOf(idNumber)
             fullYear == fullYearOf(yearOf(idNumber))
             birthDate == NewDate(fullYear, JsSub(month, 1), day)
             errors == pushErrors(dateCheckFails(birthDate, fullYear, month, day),
                                  citizenshipCheckFails(citizenshipOf(idNumber)),
                                  checksumCheckFails(idNumber))
         IN  assembleResult(errors, birthDate, genderOf(idNumber),
                            citizenshipOf(idNumber))

---------------------------------------------------------------------------
(* The pseudocode calculateLuhnChecksum of the technical specification,     *)
(* on the sequence of the digits without the check digit.                   *)

\* for each digit from right to left: the digits k, k - 1, ..., 1
RECURSIVE calculateLuhnLoop(_, _, _, _)
calculateLuhnLoop(digits, k, sum, alternate) ==
    IF k < 1
    THEN sum
    ELSE LET digit == IF alternate
                      THEN (IF digits[k] * 2 > 9 THEN digits[k] * 2 - 9
                            ELSE digits[k] * 2)
                      ELSE digits[k]
         IN  calculateLuhnLoop(digits, k - 1, sum + digit, ~alternate)

calculateLuhnChecksum(digits) ==
    (10 - (calculateLuhnLoop(digits, Len(digits), 0, FALSE) % 10)) % 10

---------------------------------------------------------------------------
(* formatSAID. *)

\* String.prototype.substring(a): to the end of the string
substringFrom(s, a) == substring(s, a, Len(s))

\* a last group that starts one index too far right
formatSAID_LastGroup(idNumber) ==
    IF isEmptyInput(idNumber) \/ Len(idNumber) # 13
    THEN idNumber
    ELSE substring(idNumber, 0, 6) \o <<" ">> \o substring(idNumber, 6, 10)
             \o <<" ">> \o substringFrom(idNumber, 11)

\* groups of 6, 3 and 4 characters
formatSAID_Grouping(idNumber) ==
    IF isEmptyInput(idNumber) \/ Len(idNumber) # 13
    THEN idNumber
    ELSE substring(idNumber, 0, 6) \o <<" ">> \o substring(idNumber, 6, 9)
             \o <<" ">> \o substringFrom(idNumber, 9)

\* !idNumber || idNumber.length !== 13 ? idNumber : the three groups
formatSAID(idNumber) ==
    IF isEmptyInput(idNumber) \/ Len(idNumber) # 13
    THEN idNumber
    ELSE substring(idNumber, 0, 6) \o <<" ">> \o substring(idNumber, 6, 10)
             \o <<" ">> \o substringFrom(idNumber, 10)

---------------------------------------------------------------------------
(* The ContextAwarenessSystem singleton, as far as the provider uses it.    *)
(* featureUsage maps the names that have an entry to [count]; the time      *)
(* stamp lastUsed is left out.  performanceMetrics maps the names that have *)
(* an entry to the number of their measurements; the durations, readings of *)
(* the clock, are left out.                                                 *)

\* the names trackFeatureUsage is called with: the three of the provider,
\* the one of the unit test, and a name every object inherits a property for
FeatureNames == {"localValidation", "apiValidation", "getPersonDetails",
                 "newFeature", "constructor"}

\* the names of FeatureNames that are properties of Object.prototype, so
\* that this.featureUsage[name] is a function, and truthy, on the empty object
InheritedNames == {"constructor"}

\* a JavaScript value: undefined or a number
JsUndefined == [kind |-> "undefined"]

JsNumber(n) == [kind |-> "number", value |-> n]

\* the value v++ stores: ToNumber(undefined) is NaN
increment(v) ==
    IF v.kind = "number" THEN JsNumber(JsAdd(v.value, 1)) ELSE JsNumber(NaN)

\* !this.featureUsage[featureName]: no own entry and nothing inherited
hasNoEntry(usage, featureName) ==
    featureName \notin DOMAIN usage /\ featureName \notin InheritedNames

\* trackFeatureUsage(featureName) on the record usage: its own properties
trackFeatureUsage(usage, featureName) ==
    LET created == IF hasNoEntry(usage, featureName)
                   THEN usage @@ (featureName :> [count |-> 0])
                   ELSE usage
    IN  IF featureName \in DOMAIN created
        THEN [created EXCEPT ![featureName].count = @ + 1]
        ELSE created

\* trackFeatureUsage(featureName) on the inherited values: count++ lands
\* on the inherited value when the record has no own entry for the name
trackFeatureUsageInherited(proto, usage, featureName) ==
    IF featureName \notin DOMAIN usage /\ featureName \in InheritedNames
    THEN [proto EXCEPT ![featureName] = increment(@)]
    ELSE proto

\* this.featureUsage[featureName].count, undefined without an entry
countOf(usage, proto, featureName) ==
    IF featureName \in DOMAIN usage
    THEN JsNumber(usage[featureName].count)
    ELSE IF featureName \in InheritedNames
         THEN proto[featureName]
         ELSE JsUndefined

\* measurePerformance(operationName, durationMs) on the record metrics
measurePerformance(metrics, operationName) ==
    LET created == IF operationName \in DOMAIN metrics
                   THEN metrics
                   ELSE metrics @@ (operationName :> [measurements |-> 0])
    IN  [created EXCEPT ![operationName].measurements = @ + 1]

\* the count of a feature, 0 when it has no entry
usageCount(usage, featureName) ==
    IF featureName \in DOMAIN usage THEN usage[featureName].count ELSE 0

---------------------------------------------------------------------------
(* IdValidationProvider and the remote service. *)

\* no idNumber: the mark of a result that is null
NoId == <<"none">>

\* useState(false) of the form; nothing produced yet
InitForm ==
    /\ showDetails = FALSE
    /\ resultFor = NoId
    /\ responseFor = NoId

\* null, for validationResult
Null == [kind |-> "null"]

\* null, for apiResponse
NullResponse == [status |-> "null", message |-> ""]

\* how the promise of verifyIdNumber or getPersonDetailsById settles: with
\* a success envelope, with the error envelope the service returns from
\* its own catch, or rejected (the case the catch of the provider is for;
\* the service as written catches its own errors)
RemoteOutcomes == {"success", "error", "throw"}

\* the envelope the remote function resolves with
remoteResponse(op, outcome) ==
    IF outcome = "success"
    THEN [isValid |-> TRUE, status |-> "success",
          message |-> IF op = "validateWithAPI"
                      THEN "ID number validation successful (MOCK)"
                      ELSE "Person details retrieved successfully (MOCK)"]
    ELSE [isValid |-> FALSE, status |-> "error", message |-> "Unknown error occurred"]

\* the envelope the catch of the provider builds
caughtResponse == [status |-> "error", message |-> "Unknown error occurred"]

---------------------------------------------------------------------------
(* ROIRepository.  An analysis is modelled by its featureName; the fields  *)
(* created and updated that addAnalysis adds are readings of the clock and *)
(* are left out.                                                           *)

\* the array of the static field analyses, never reassigned
RepositoryArray == 1

\* the array a spread [...this.analyses] creates; the caller keeps only
\* the latest one
SpreadArray == 2

\* no array
NoArray == 0

\* the analyses given to addAnalysis and to the caller's push
Analyses == {[featureName |-> "Feature 1"], [featureName |-> "Feature 2"]}

\* private static analyses: ROIAnalysis[] = []
InitRepository ==
    /\ arrays = [a \in {RepositoryArray, SpreadArray} |-> <<>>]
    /\ allAnalyses = NoArray
    /\ addedAnalyses = <<>>

---------------------------------------------------------------------------
(* The inputs and the specification. *)

\* the identifiers of the unit tests
ID_9001085012088 == ToStr(<<9, 0, 0, 1, 0, 8, 5, 0, 1, 2, 0, 8, 8>>)

ID_9001084800087 == ToStr(<<9, 0, 0, 1, 0, 8, 4, 8, 0, 0, 0, 8, 7>>)

ID_9001085012185 == ToStr(<<9, 0, 0, 1, 0, 8, 5, 0, 1, 2, 1, 8, 5>>)

ID_9013085012083 == ToStr(<<9, 0, 1, 3, 0, 8, 5, 0, 1, 2, 0, 8, 3>>)

ID_9001085012087 == ToStr(<<9, 0, 0, 1, 0, 8, 5, 0, 1, 2, 0, 8, 7>>)

\* an identifier with a check digit of the Luhn algorithm
ID_8001015009087 == ToStr(<<8, 0, 0, 1, 0, 1, 5, 0, 0, 9, 0, 8, 7>>)

BaseIds == {ID_9001085012088, ID_9001084800087, ID_9001085012185,
            ID_9013085012083, ID_9001085012087, ID_8001015009087}

\* the 13-digit string of the fields
Fields(yy, mm, dd, ssss, c, a, z) ==
    Pad2(yy) \o Pad2(mm) \o Pad2(dd) \o Pad4(ssss)
        \o <<DigitChar(c), DigitChar(a), DigitChar(z)>>

\* every date field and check digit, with the other fields of the first
\* unit test
DateInputs ==
    {Fields(yy, mm, dd, 5012, 0, 8, z) :
        yy \in YearSamples, mm \in 0..MaxMonth, dd \in 0..MaxDay, z \in 0..9}

\* every sequence number, citizenship digit, legacy digit and check digit,
\* with the date of the unit tests: 8 January and 8 of month 13
FieldInputs ==
    {Fields(90, mm, 8, ssss, c, a, z) :
        mm \in {1, 13}, ssss \in SequenceSamples, c \in 0..MaxCitizenship,
        a \in LegacySamples, z \in 0..9}

\* 29 February of every two-digit year, with the other fields of the first
\* unit test
LeapInputs ==
    {Fields(yy, 2, 29, 5012, 0, 8, 8) : yy \in 0..99}

DigitInputs == DateInputs \cup FieldInputs \cup LeapInputs

\* strings of every length 0..MaxLen other than 13: a base identifier cut
\* short, or continued with its own digits
LengthInputs ==
    {[i \in 1..n |-> s[((i - 1) % 13) + 1]] : s \in BaseIds, n \in (0..MaxLen) \ {13}}

\* 13-character strings with one or two characters that are not digits
CharsetInputs ==
    {[s EXCEPT ![i] = c, ![j] = c] : s \in BaseIds, i \in 1..13, j \in 1..13,
                                     c \in NonDigitChars}

Inputs == DigitInputs \cup BaseIds \cup LengthInputs \cup CharsetInputs

NoResult == earlyReturn(<<>>)

\* no string returned yet
NoString == <<>>

\* useState(''), useState(false), useState(null), useState(null); no
\* request issued; the empty records of the singleton
InitProvider ==
    /\ ctxIdNumber = <<>>
    /\ isValidating = FALSE
    /\ validationResult = Null
    /\ apiResponse = NullResponse
    /\ pending = <<>>
    /\ featureUsage = <<>>
    /\ performanceMetrics = <<>>
    /\ objectPrototype = [name \in InheritedNames |-> JsUndefined]
    /\ calls = [name \in FeatureNames |-> 0]

Init ==
    /\ input \in Inputs
    /\ pc = "call"
    /\ result = NoResult
    /\ formatted = NoString
    /\ InitProvider
    /\ InitRepository
    /\ InitForm

\* the call of validateSAID on the input
Validate ==
    /\ pc = "call"
    /\ result' = validateSAID(input)
    /\ pc' = "done"
    /\ UNCHANGED <<input, formatted>>
    /\ UNCHANGED ctxVars
    /\ UNCHANGED repoVars
    /\ UNCHANGED formVars

\* the call of formatSAID on the input
Format ==
    /\ pc = "call"
    /\ formatted' = formatSAID(input)
    /\ pc' = "formatted"
    /\ UNCHANGED <<input, result>>
    /\ UNCHANGED ctxVars
    /\ UNCHANGED repoVars
    /\ UNCHANGED formVars

\* the caller makes its next call: every call starts from the argument
\* alone, so the next one is drawn from the identifiers of the unit tests
NextCall ==
    /\ pc \in {"done", "formatted"}
    /\ input' \in BaseIds
    /\ pc' = "call"
    /\ result' = NoResult
    /\ formatted' = NoString
    /\ UNCHANGED ctxVars
    /\ UNCHANGED repoVars
    /\ UNCHANGED formVars

Next == Validate \/ NextCall

Spec == Init /\ [][Next]_vars

\* the calls of formatSAID
NextFormat == Format \/ NextCall

\* the identifiers the provider is given
CtxIds == {<<>>, ID_9013085012083}

\* setIdNumber(value)
setIdNumber(value) ==
    /\ ctxIdNumber' = value
    /\ UNCHANGED <<isValidating, validationResult, apiResponse, pending>>
    /\ UNCHANGED telemetryVars
    /\ UNCHANGED callVars
    /\ UNCHANGED repoVars
    /\ UNCHANGED formVars

\* validateLocally() as it would be if it went through resetValidation()
validateLocally_ResetsResponse ==
    /\ usageCount(featureUsage, "localValidation") < MaxUsage
    /\ featureUsage' = trackFeatureUsage(featureUsage, "localValidation")
    /\ objectPrototype' = trackFeatureUsageInherited(objectPrototype, featureUsage, "localValidation")
    /\ calls' = [calls EXCEPT !["localValidation"] = @ + 1]
    /\ performanceMetrics' = measurePerformance(performanceMetrics, "idValidation")
    /\ validationResult' = validateSAID(ctxIdNumber)
    /\ apiResponse' = NullResponse
    /\ UNCHANGED <<ctxIdNumber, isValidating, pending>>
    /\ UNCHANGED callVars
    /\ UNCHANGED repoVars
    /\ resultFor' = ctxIdNumber
    /\ UNCHANGED <<showDetails, responseFor>>

\* validateLocally()
validateLocally ==
    /\ usageCount(featureUsage, "localValidation") < MaxUsage
    /\ featureUsage' = trackFeatureUsage(featureUsage, "localValidation")
    /\ objectPrototype' = trackFeatureUsageInherited(objectPrototype, featureUsage, "localValidation")
    /\ calls' = [calls EXCEPT !["localValidation"] = @ + 1]
    /\ performanceMetrics' = measurePerformance(performanceMetrics, "idValidation")
    /\ validationResult' = validateSAID(ctxIdNumber)
    /\ UNCHANGED <<ctxIdNumber, isValidating, apiResponse, pending>>
    /\ UNCHANGED callVars
    /\ UNCHANGED repoVars
    /\ resultFor' = ctxIdNumber
    /\ UNCHANGED <<showDetails, responseFor>>

\* the sequence s without its element i
removeAt(s, i) ==
    [k \in 1..(Len(s) - 1) |-> IF k < i THEN s[k] ELSE s[k + 1]]

\* validateWithAPI(), up to its await: the request is issued for the
\* idNumber of the provider
validateWithAPI ==
    /\ Len(pending) < MaxPending
    /\ usageCount(featureUsage, "apiValidation") < MaxUsage
    /\ isValidating' = TRUE
    /\ featureUsage' = trackFeatureUsage(featureUsage, "apiValidation")
    /\ objectPrototype' = trackFeatureUsageInherited(objectPrototype, featureUsage, "apiValidation")
    /\ calls' = [calls EXCEPT !["apiValidation"] = @ + 1]
    /\ pending' = Append(pending, [op |-> "validateWithAPI", idNumber |-> ctxIdNumber])
    /\ UNCHANGED <<ctxIdNumber, validationResult, apiResponse, performanceMetrics>>
    /\ UNCHANGED callVars
    /\ UNCHANGED repoVars
    /\ UNCHANGED formVars

\* the rest of validateWithAPI() as it would be without its finally block
validateWithAPISettled_NoFinally(i, outcome) ==
    /\ i \in 1..Len(pending)
    /\ pending[i].op = "validateWithAPI"
    /\ IF outcome = "throw"
       THEN /\ apiResponse' = caughtResponse
            /\ UNCHANGED <<performanceMetrics, isValidating>>
       ELSE /\ performanceMetrics' = measurePerformance(performanceMetrics, "apiValidation")
            /\ apiResponse' = remoteResponse("validateWithAPI", outcome)
            /\ isValidating' = FALSE
    /\ pending' = removeAt(pending, i)
    /\ UNCHANGED <<ctxIdNumber, validationResult, featureUsage,
                   objectPrototype, calls>>
    /\ UNCHANGED callVars
    /\ UNCHANGED repoVars
    /\ responseFor' = pending[i].idNumber
    /\ UNCHANGED <<showDetails, resultFor>>

\* the rest of validateWithAPI(), when its request, pending[i], settles:
\* the try block after the await, or the catch, and then the finally
validateWithAPISettled(i, outcome) ==
    /\ i \in 1..Len(pending)
    /\ pending[i].op = "validateWithAPI"
    /\ IF outcome = "throw"
       THEN /\ apiResponse' = caughtResponse
            /\ UNCHANGED performanceMetrics
       ELSE /\ performanceMetrics' = measurePerformance(performanceMetrics, "apiValidation")
            /\ apiResponse' = remoteResponse("validateWithAPI", outcome)
    /\ isValidating' = FALSE
    /\ pending' = removeAt(pending, i)
    /\ UNCHANGED <<ctxIdNumber, validationResult, featureUsage,
                   objectPrototype, calls>>
    /\ UNCHANGED callVars
    /\ UNCHANGED repoVars
    /\ responseFor' = pending[i].idNumber
    /\ UNCHANGED <<showDetails, resultFor>>

\* getPersonDetails(), up to its await
getPersonDetails ==
    /\ Len(pending) < MaxPending
    /\ usageCount(featureUsage, "getPersonDetails") < MaxUsage
    /\ isValidating' = TRUE
    /\ featureUsage' = trackFeatureUsage(featureUsage, "getPersonDetails")
    /\ objectPrototype' = trackFeatureUsageInherited(objectPrototype, featureUsage, "getPersonDetails")
    /\ calls' = [calls EXCEPT !["getPersonDetails"] = @ + 1]
    /\ pending' = Append(pending, [op |-> "getPersonDetails", idNumber |-> ctxIdNumber])
    /\ UNCHANGED <<ctxIdNumber, validationResult, apiResponse, performanceMetrics>>
    /\ UNCHANGED callVars
    /\ UNCHANGED repoVars
    /\ UNCHANGED formVars

\* the rest of getPersonDetails(), when its request, pending[i], settles
getPersonDetailsSettled(i, outcome) ==
    /\ i \in 1..Len(pending)
    /\ pending[i].op = "getPersonDetails"
    /\ IF outcome = "throw"
       THEN /\ apiResponse' = caughtResponse
            /\ UNCHANGED performanceMetrics
       ELSE /\ performanceMetrics' = measurePerformance(performanceMetrics, "getPersonDetails")
            /\ apiResponse' = remoteResponse("getPersonDetails", outcome)
    /\ isValidating' = FALSE
    /\ pending' = removeAt(pending, i)
    /\ UNCHANGED <<ctxIdNumber, validationResult, featureUsage,
                   objectPrototype, calls>>
    /\ UNCHANGED callVars
    /\ UNCHANGED repoVars
    /\ responseFor' = pending[i].idNumber
    /\ UNCHANGED <<showDetails, resultFor>>

\* resetValidation()
resetValidation ==
    /\ validationResult' = Null
    /\ apiResponse' = NullResponse
    /\ UNCHANGED <<ctxIdNumber, isValidating, pending>>
    /\ UNCHANGED telemetryVars
    /\ UNCHANGED callVars
    /\ UNCHANGED repoVars
    /\ resultFor' = NoId
    /\ responseFor' = NoId
    /\ UNCHANGED showDetails

InitContext ==
    /\ input = <<>>
    /\ pc = "call"
    /\ result = NoResult
    /\ formatted = NoString
    /\ InitProvider
    /\ InitRepository
    /\ InitForm

NextContext ==
    \/ \E value \in CtxIds : setIdNumber(value)
    \/ validateLocally
    \/ validateWithAPI
    \/ getPersonDetails
    \/ \E i \in 1..MaxPending, outcome \in RemoteOutcomes :
           validateWithAPISettled(i, outcome)
    \/ \E i \in 1..MaxPending, outcome \in RemoteOutcomes :
           getPersonDetailsSettled(i, outcome)
    \/ resetValidation

SpecContext == InitContext /\ [][NextContext]_vars

\* the values the input field is given: nothing, two identifiers, and a
\* short value with a character that is not a digit
TypedValues == {<<>>, ID_9001085012088, ID_9013085012083, <<"9", "0", "A", "1">>}

IsDigitChar(c) == c \in DigitSet

\* value.replace(/\D/g, '')
removeNonDigits(value) == SelectSeq(value, IsDigitChar)

\* disabled={isValidating || !idNumber || idNumber.length !== 13}
buttonDisabled == isValidating \/ Len(ctxIdNumber) = 0 \/ Len(ctxIdNumber) # 13

\* handleInputChange: setIdNumber(numericValue), and resetValidation() when
\* a result or a response is held
handleInputChange(value) ==
    /\ ctxIdNumber' = removeNonDigits(value)
    /\ IF validationResult # Null \/ apiResponse # NullResponse
       THEN /\ validationResult' = Null
            /\ apiResponse' = NullResponse
            /\ resultFor' = NoId
            /\ responseFor' = NoId
       ELSE UNCHANGED <<validationResult, apiResponse, resultFor, responseFor>>
    /\ UNCHANGED <<isValidating, pending, showDetails>>
    /\ UNCHANGED telemetryVars
    /\ UNCHANGED callVars
    /\ UNCHANGED repoVars

\* handleSubmit: validateLocally()
handleSubmit ==
    /\ usageCount(featureUsage, "localValidation") < MaxUsage
    /\ featureUsage' = trackFeatureUsage(featureUsage, "localValidation")
    /\ objectPrototype' = trackFeatureUsageInherited(objectPrototype, featureUsage, "localValidation")
    /\ calls' = [calls EXCEPT !["localValidation"] = @ + 1]
    /\ performanceMetrics' = measurePerformance(performanceMetrics, "idValidation")
    /\ validationResult' = validateSAID(ctxIdNumber)
    /\ resultFor' = ctxIdNumber
    /\ UNCHANGED <<ctxIdNumber, isValidating, apiResponse, pending>>
    /\ UNCHANGED <<showDetails, responseFor>>
    /\ UNCHANGED callVars
    /\ UNCHANGED repoVars

\* handleApiValidation, behind its button: validateWithAPI() up to its await
handleApiValidation ==
    /\ ~buttonDisabled
    /\ Len(pending) < MaxPending
    /\ usageCount(featureUsage, "apiValidation") < MaxUsage
    /\ isValidating' = TRUE
    /\ featureUsage' = trackFeatureUsage(featureUsage, "apiValidation")
    /\ objectPrototype' = trackFeatureUsageInherited(objectPrototype, featureUsage, "apiValidation")
    /\ calls' = [calls EXCEPT !["apiValidation"] = @ + 1]
    /\ pending' = Append(pending, [op |-> "validateWithAPI", idNumber |-> ctxIdNumber])
    /\ UNCHANGED <<ctxIdNumber, validationResult, apiResponse, performanceMetrics>>
    /\ UNCHANGED formVars
    /\ UNCHANGED callVars
    /\ UNCHANGED repoVars

\* handleGetDetails, behind its button: getPersonDetails() up to its await,
\* and setShowDetails(true)
handleGetDetails ==
    /\ ~buttonDisabled
    /\ Len(pending) < MaxPending
    /\ usageCount(featureUsage, "getPersonDetails") < MaxUsage
    /\ isValidating' = TRUE
    /\ featureUsage' = trackFeatureUsage(featureUsage, "getPersonDetails")
    /\ objectPrototype' = trackFeatureUsageInherited(objectPrototype, featureUsage, "getPersonDetails")
    /\ calls' = [calls EXCEPT !["getPersonDetails"] = @ + 1]
    /\ pending' = Append(pending, [op |-> "getPersonDetails", idNumber |-> ctxIdNumber])
    /\ showDetails' = TRUE
    /\ UNCHANGED <<ctxIdNumber, validationResult, apiResponse, performanceMetrics>>
    /\ UNCHANGED <<resultFor, responseFor>>
    /\ UNCHANGED callVars
    /\ UNCHANGED repoVars

\* the form: its handlers, and the requests settling
NextForm ==
    \/ \E value \in TypedValues : handleInputChange(value)
    \/ handleSubmit
    \/ handleApiValidation
    \/ handleGetDetails
    \/ \E i \in 1..MaxPending, outcome \in RemoteOutcomes :
           validateWithAPISettled(i, outcome)
    \/ \E i \in 1..MaxPending, outcome \in RemoteOutcomes :
           getPersonDetailsSettled(i, outcome)

SpecForm == InitContext /\ [][NextForm]_vars

\* getAllAnalyses() as it would be if it returned this.analyses itself
getAllAnalyses_SameArray ==
    /\ allAnalyses' = RepositoryArray
    /\ UNCHANGED <<arrays, addedAnalyses>>
    /\ UNCHANGED callVars
    /\ UNCHANGED ctxVars
    /\ UNCHANGED formVars

\* const allAnalyses = ROIRepository.getAllAnalyses()
getAllAnalyses ==
    /\ arrays' = [arrays EXCEPT ![SpreadArray] = arrays[RepositoryArray]]
    /\ allAnalyses' = SpreadArray
    /\ UNCHANGED addedAnalyses
    /\ UNCHANGED callVars
    /\ UNCHANGED ctxVars
    /\ UNCHANGED formVars

\* ROIRepository.addAnalysis(analysis)
addAnalysis(analysis) ==
    /\ Len(addedAnalyses) < MaxAnalyses
    /\ arrays' = [arrays EXCEPT ![RepositoryArray] = Append(@, analysis)]
    /\ addedAnalyses' = Append(addedAnalyses, analysis)
    /\ UNCHANGED allAnalyses
    /\ UNCHANGED callVars
    /\ UNCHANGED ctxVars
    /\ UNCHANGED formVars

\* allAnalyses.push(analysis), by the caller
Push(analysis) ==
    /\ allAnalyses # NoArray
    /\ Len(arrays[allAnalyses]) <= MaxAnalyses
    /\ arrays' = [arrays EXCEPT ![allAnalyses] = Append(@, analysis)]
    /\ UNCHANGED <<allAnalyses, addedAnalyses>>
    /\ UNCHANGED callVars
    /\ UNCHANGED ctxVars
    /\ UNCHANGED formVars

\* allAnalyses.pop(), by the caller
Pop ==
    /\ allAnalyses # NoArray
    /\ arrays' = [arrays EXCEPT ![allAnalyses] = SubSeq(@, 1, Len(@) - 1)]
    /\ UNCHANGED <<allAnalyses, addedAnalyses>>
    /\ UNCHANGED callVars
    /\ UNCHANGED ctxVars
    /\ UNCHANGED formVars

\* allAnalyses.shift(), by the caller
Shift ==
    /\ allAnalyses # NoArray
    /\ arrays' = [arrays EXCEPT ![allAnalyses] = SubSeq(@, 2, Len(@))]
    /\ UNCHANGED <<allAnalyses, addedAnalyses>>
    /\ UNCHANGED callVars
    /\ UNCHANGED ctxVars
    /\ UNCHANGED formVars

NextRepository ==
    \/ getAllAnalyses
    \/ \E analysis \in Analyses : addAnalysis(analysis)
    \/ \E analysis \in Analyses : Push(analysis)
    \/ Pop
    \/ Shift

SpecRepository == InitContext /\ [][NextRepository]_vars

\* a call of trackFeatureUsage(featureName) on the singleton
TrackFeatureUsage(featureName) ==
    /\ calls[featureName] < MaxUsage
    /\ featureUsage' = trackFeatureUsage(featureUsage, featureName)
    /\ objectPrototype' =
           trackFeatureUsageInherited(objectPrototype, featureUsage, featureName)
    /\ calls' = [calls EXCEPT ![featureName] = @ + 1]
    /\ UNCHANGED performanceMetrics
    /\ UNCHANGED providerVars
    /\ UNCHANGED callVars
    /\ UNCHANGED repoVars
    /\ UNCHANGED formVars

\* the calls of trackFeatureUsage
NextTelemetry == \E featureName \in FeatureNames : TrackFeatureUsage(featureName)

SpecTelemetry == InitContext /\ [][NextTelemetry]_vars

SpecFormat == Init /\ [][NextFormat]_vars

---------------------------------------------------------------------------
(* Definitions shared by the properties. *)

Done == pc = "done"

IsDigitString13(s) == Len(s) = 13 /\ \A i \in 1..13 : s[i] \in DigitSet

ErrorSet(r) == {r.errors[i] : i \in 1..Len(r.errors)}

NoDerivedFields(r) ==
    /\ r.birthDate = UndefinedDate
    /\ r.gender = Undefined
    /\ r.citizenshipStatus = Undefined

AllDerivedFields(r) ==
    /\ r.birthDate # UndefinedDate
    /\ r.gender # Undefined
    /\ r.citizenshipStatus # Undefined

\* the value of the two digits at the 0-based indices i, i + 1
TwoDigits(s, i) == 10 * DigitValue(s[i + 1]) + DigitValue(s[i + 2])

\* the digit at the 0-based index i
DigitAt(s, i) == DigitValue(s[i + 1])

\* the calendar, stated apart from the Date of the model: (y, mm, dd) is a
\* date when mm is a month 1..12 and dd a day of that month of year y
CalendarLeapYear(y) == y % 4 = 0 /\ (y % 100 # 0 \/ y % 400 = 0)

CalendarMonthLengths(y) ==
    <<31, IF CalendarLeapYear(y) THEN 29 ELSE 28, 31, 30, 31, 30, 31, 31, 30, 31, 30, 31>>

IsCalendarDate(y, mm, dd) ==
    /\ mm >= 1
    /\ mm <= 12
    /\ dd >= 1
    /\ dd <= CalendarMonthLengths(y)[mm]

CenturyYear(s) ==
    IF TwoDigits(s, 0) < 50 THEN 2000 + TwoDigits(s, 0) ELSE 1900 + TwoDigits(s, 0)

\* the string s with the character at the 0-based index i replaced by the
\* digit d
WithDigit(s, i, d) == [s EXCEPT ![i + 1] = DigitChar(d)]

---------------------------------------------------------------------------
(* C1: when validateSAID has returned, isValid is true exactly when errors  *)
(* is empty; with no errors birthDate, gender and citizenshipStatus are all *)
(* set, and with an error none of them is.                                  *)
C1_DerivedFieldsIffValid ==
    Done =>
        /\ result.isValid <=> (result.errors = <<>>)
        /\ result.errors = <<>> => AllDerivedFields(result)
        /\ result.errors # <<>> => NoDerivedFields(result)

C1_Witness ==
    /\ Done
    /\ result.isValid
    /\ AllDerivedFields(result)

(* C2: validateSAID("9001085012088") is valid, with no errors, gender Male, *)
(* citizenshipStatus Citizen and the birth date 8 January 1990.             *)
C2_Claim ==
    (Done /\ input = ID_9001085012088) =>
        /\ result.isValid
        /\ result.errors = <<>>
        /\ result.gender = "Male"
        /\ result.citizenshipStatus = "Citizen"
        /\ result.birthDate = [kind |-> "Date", year |-> 1990, month |-> 0, date |-> 8]

(* C3: the check digit is computed from the first 12 digits with the digit  *)
(* left of the check digit (index 11) doubled, then the digits at indices   *)
(* 9, 7, 5, 3 and 1; a doubled value above 9 has 9 subtracted; the expected *)
(* check digit is (10 - (sum mod 10)) mod 10, and the checksum error is     *)
(* reported exactly when it differs from the supplied check digit.          *)
C3_Doubled(d) == IF 2 * d > 9 THEN 2 * d - 9 ELSE 2 * d

RECURSIVE C3_Sum(_, _)
C3_Sum(s, i) ==
    IF i < 0
    THEN 0
    ELSE (IF i % 2 = 1 THEN C3_Doubled(DigitAt(s, i)) ELSE DigitAt(s, i))
         + C3_Sum(s, i - 1)

C3_ExpectedCheckDigit(s) == (10 - (C3_Sum(s, 11) % 10)) % 10

C3_Claim ==
    (Done /\ IsDigitString13(input)) =>
        (MsgChecksum \in ErrorSet(result)
            <=> C3_ExpectedCheckDigit(input) # DigitAt(input, 12))

(* C4, as amended: for every string whose length is not 13, the result is   *)
(* invalid, has no derived fields and holds exactly one message: the        *)
(* length message when the string is not empty, the non-empty message when  *)
(* it is empty.                                                             *)
C4_FormatErrorOnly ==
    (Done /\ Len(input) # 13) =>
        /\ ~result.isValid
        /\ result.errors = <<IF Len(input) = 0 THEN MsgNonEmpty ELSE MsgLength>>
        /\ NoDerivedFields(result)

C4_Witness ==
    /\ Done
    /\ Len(input) = 14
    /\ result.errors = <<MsgLength>>

(* C4, as stated: for every string whose length is not 13, the empty string *)
(* included, the only message is the length message.                        *)
C4_Original ==
    (Done /\ Len(input) # 13) =>
        /\ ~result.isValid
        /\ result.errors = <<MsgLength>>
        /\ NoDerivedFields(result)

(* C5: for every string of 13 characters of which one at least is not an    *)
(* ASCII digit, the result is invalid and the charset message is its only   *)
(* error.                                                                   *)
C5_CharsetErrorOnly ==
    (Done /\ Len(input) = 13 /\ \E i \in 1..13 : input[i] \notin DigitSet) =>
        /\ ~result.isValid
        /\ result.errors = <<MsgCharset>>
        /\ NoDerivedFields(result)

C5_Witness ==
    /\ Done
    /\ Len(input) = 13
    /\ input[1] \in DigitSet
    /\ input[12] \notin DigitSet
    /\ result.errors = <<MsgCharset>>

(* C6: for every 13-digit string the date error is reported iff the date   *)
(* is invalid, the citizenship error iff the digit at index 10 is neither 0 *)
(* nor 1, and the checksum error iff the computed check digit differs from  *)
(* the supplied one; each of the 8 combinations of the three errors is the  *)
(* result of some 13-digit string.                                          *)
C6_AllCombinations ==
    \A combination \in SUBSET {MsgDate, MsgCitizenship, MsgChecksum} :
        \E s \in FieldInputs : ErrorSet(validateSAID(s)) = combination

C6_IndependentChecks ==
    /\ (Done /\ IsDigitString13(input)) =>
        /\ MsgDate \in ErrorSet(result)
               <=> ~IsCalendarDate(CenturyYear(input), TwoDigits(input, 2),
                                    TwoDigits(input, 4))
        /\ MsgCitizenship \in ErrorSet(result) <=> DigitAt(input, 10) \notin {0, 1}
        /\ MsgChecksum \in ErrorSet(result)
               <=> calculatedChecksum(input) # DigitAt(input, 12)
    /\ C6_AllCombinations

C6_Witness ==
    /\ Done
    /\ IsDigitString13(input)
    /\ result.errors = <<MsgDate, MsgCitizenship, MsgChecksum>>

(* C7: for every identifier that validateSAID accepts, the same identifier  *)
(* with any other check digit is rejected with the checksum error as its    *)
(* only error and with no derived fields.                                   *)
C7_Tampered(d) == validateSAID(WithDigit(input, 12, d))

C7_CheckDigitTampering ==
    (Done /\ result.isValid) =>
        \A d \in (0..9) \ {DigitAt(input, 12)} :
            /\ ~C7_Tampered(d).isValid
            /\ C7_Tampered(d).errors = <<MsgChecksum>>
            /\ NoDerivedFields(C7_Tampered(d))

C7_Witness ==
    /\ Done
    /\ result.isValid
    /\ DigitAt(input, 12) # 0
    /\ C7_Tampered(0).errors = <<MsgChecksum>>

(* C8: for every 13-digit string the date error is reported iff             *)
(* (fullYear, MM, DD) is not a date of the calendar: the date passes        *)
(* exactly when 1 <= MM <= 12 and 1 <= DD <= the number of days of month MM *)
(* of fullYear; "9013085012083" is invalid, with the date error.            *)
C8_DateErrorIffNotCalendarDate ==
    /\ (Done /\ IsDigitString13(input)) =>
        (MsgDate \in ErrorSet(result)
            <=> ~IsCalendarDate(CenturyYear(input), TwoDigits(input, 2),
                                 TwoDigits(input, 4)))
    /\ (Done /\ input = ID_9013085012083) =>
        (~result.isValid /\ MsgDate \in ErrorSet(result))

C8_Witness ==
    /\ Done
    /\ IsDigitString13(input)
    /\ TwoDigits(input, 2) = 4
    /\ TwoDigits(input, 4) = 31
    /\ MsgDate \in ErrorSet(result)

(* C9: validateSAID("9001084800087") is valid, with gender Female.          *)
C9_Claim ==
    (Done /\ input = ID_9001084800087) =>
        (result.isValid /\ result.gender = "Female")

(* C10: validateSAID("9001085012185") is valid, with citizenshipStatus      *)
(* Permanent Resident.                                                      *)
C10_Claim ==
    (Done /\ input = ID_9001085012185) =>
        (result.isValid /\ result.citizenshipStatus = "Permanent Resident")

(* C11: the two-digit year YY means 2000 + YY when YY < 50 and 1900 + YY    *)
(* otherwise, so the full year lies in 1950..2049; the birthDate of every   *)
(* valid identifier has that full year, the month MM and the day DD of the  *)
(* input.                                                                   *)
C11_CenturyInference ==
    (Done /\ IsDigitString13(input)) =>
        /\ fullYearOf(yearOf(input)) = CenturyYear(input)
        /\ fullYearOf(yearOf(input)) \in 1950..2049
        /\ result.isValid =>
               result.birthDate = [kind |-> "Date",
                                   year |-> CenturyYear(input),
                                   month |-> TwoDigits(input, 2) - 1,
                                   date |-> TwoDigits(input, 4)]

C11_Witness ==
    /\ Done
    /\ result.isValid
    /\ TwoDigits(input, 0) = 49
    /\ result.birthDate.year = 2049

(* C12: for every valid identifier, gender is Male iff the sequence number  *)
(* at indices 6..9 is at least 5000, and Female iff it is in 0000..4999.    *)
C12_SequenceNumber(s) == 100 * TwoDigits(s, 6) + TwoDigits(s, 8)

C12_GenderFromSequence ==
    (Done /\ result.isValid) =>
        /\ result.gender = "Male" <=> C12_SequenceNumber(input) >= 5000
        /\ result.gender = "Female" <=> C12_SequenceNumber(input) \in 0..4999

C12_Witness ==
    /\ Done
    /\ result.isValid
    /\ C12_SequenceNumber(input) = 5000
    /\ result.gender = "Male"

(* C13: for every valid identifier, citizenshipStatus is Citizen iff the    *)
(* digit at index 10 is 0 and Permanent Resident iff it is 1; no valid      *)
(* identifier has another digit at index 10.                                *)
C13_CitizenshipFromDigit ==
    (Done /\ result.isValid) =>
        /\ DigitAt(input, 10) \in {0, 1}
        /\ result.citizenshipStatus = "Citizen" <=> DigitAt(input, 10) = 0
        /\ result.citizenshipStatus = "Permanent Resident" <=> DigitAt(input, 10) = 1

C13_Witness ==
    /\ Done
    /\ result.isValid
    /\ DigitAt(input, 10) = 1
    /\ result.citizenshipStatus = "Permanent Resident"

(* C14: for every input string (empty, too short, too long, with a          *)
(* character that is not a digit, or 13 digits) validateSAID returns an     *)
(* object with a boolean isValid and a list of messages errors; every       *)
(* failure has isValid = false and a non-empty errors.                      *)
C14_Messages ==
    {MsgNonEmpty, MsgLength, MsgCharset, MsgDate, MsgCitizenship, MsgChecksum}

C14_WellFormedResult ==
    Done =>
        /\ result.isValid \in BOOLEAN
        /\ result.errors \in Seq(C14_Messages)
        /\ ~result.isValid => Len(result.errors) >= 1
        /\ (~IsDigitString13(input)) => ~result.isValid

C14_Witness ==
    /\ Done
    /\ input = <<>>
    /\ ~result.isValid
    /\ Len(result.errors) = 1

(* C15: the legacy digit at index 11 may be any digit: whatever it is, the  *)
(* errors are among the date, citizenship and checksum errors and the date  *)
(* and citizenship outcomes are those of the input; and when the date and   *)
(* the citizenship digit are valid, then for every legacy digit exactly one *)
(* check digit makes the identifier valid.  Stated on the inputs with check *)
(* digit 0, one for each choice of the leading digits.                      *)
C15_Variant(a, z) == validateSAID(WithDigit(WithDigit(input, 11, a), 12, z))

C15_LegacyDigitAccepted ==
    (Done /\ IsDigitString13(input) /\ DigitAt(input, 12) = 0) =>
        \A a \in 0..9 :
            /\ ErrorSet(C15_Variant(a, 0)) \subseteq {MsgDate, MsgCitizenship, MsgChecksum}
            /\ MsgDate \in ErrorSet(C15_Variant(a, 0)) <=> MsgDate \in ErrorSet(result)
            /\ MsgCitizenship \in ErrorSet(C15_Variant(a, 0))
                   <=> MsgCitizenship \in ErrorSet(result)
            /\ (MsgDate \notin ErrorSet(result) /\ MsgCitizenship \notin ErrorSet(result))
                   => Cardinality({z \in 0..9 : C15_Variant(a, z).isValid}) = 1

C15_Witness ==
    /\ Done
    /\ IsDigitString13(input)
    /\ DigitAt(input, 12) = 0
    /\ MsgDate \notin ErrorSet(result)
    /\ MsgCitizenship \notin ErrorSet(result)
    /\ \E z \in 1..9 : C15_Variant(3, z).isValid

(* C16: for every 13-digit string s, formatSAID(s) with its white space     *)
(* removed is s.                                                            *)
Whitespace == {" ", "\t", "\n", "\r"}

IsNotWhitespace(c) == c \notin Whitespace

RemoveWhitespace(s) == SelectSeq(s, IsNotWhitespace)

C16_RoundTrip ==
    (pc = "formatted" /\ IsDigitString13(input)) =>
        RemoveWhitespace(formatted) = input

C16_Witness ==
    /\ pc = "formatted"
    /\ IsDigitString13(input)
    /\ formatted # input
    /\ RemoveWhitespace(formatted) = input

(* C17: formatSAID returns a string whose length is not 13 unchanged; of a  *)
(* string of length 13, whatever its characters, it returns the characters  *)
(* 0..5, one space, the characters 6..9, one space and the characters       *)
(* 10..12, 15 characters in all.                                            *)
C17_Grouped(s, f) ==
    /\ Len(f) = 15
    /\ \A i \in 1..6 : f[i] = s[i]
    /\ f[7] = " "
    /\ \A i \in 7..10 : f[i + 1] = s[i]
    /\ f[12] = " "
    /\ \A i \in 11..13 : f[i + 2] = s[i]

C17_FormatByLength ==
    pc = "formatted" =>
        /\ Len(input) # 13 => formatted = input
        /\ Len(input) = 13 => C17_Grouped(input, formatted)

C17_Witness ==
    /\ pc = "formatted"
    /\ input = ID_9001085012088
    /\ formatted = <<"9", "0", "0", "1", "0", "8", " ", "5", "0", "1", "2", " ",
                     "0", "8", "8">>

(* C19: for every 13-digit string, the check digit that validateSAID        *)
(* computes is the result of the documented calculateLuhnChecksum on its    *)
(* first 12 digits, and the checksum error is reported accordingly.         *)
C19_First12Digits(s) == [i \in 1..12 |-> DigitAt(s, i - 1)]

C19_ChecksumAsDocumented ==
    (Done /\ IsDigitString13(input)) =>
        /\ calculatedChecksum(input) = calculateLuhnChecksum(C19_First12Digits(input))
        /\ MsgChecksum \in ErrorSet(result)
               <=> calculateLuhnChecksum(C19_First12Digits(input)) # DigitAt(input, 12)

C19_Witness ==
    /\ Done
    /\ IsDigitString13(input)
    /\ MsgChecksum \notin ErrorSet(result)
    /\ calculateLuhnChecksum(C19_First12Digits(input)) = 7

---------------------------------------------------------------------------
(* The provider's isValidating flag. *)

\* C20: in every reachable state of the provider, isValidating is true
\* whenever at least one validateWithAPI or getPersonDetails call has
\* started and its remote request has not yet settled, also when two such
\* calls overlap and the first one finishes before the second.
C20_Claim ==
    (Len(pending) >= 1) => isValidating

---------------------------------------------------------------------------
(* Local validation next to the remote requests. *)

\* the steps of validateLocally(): the only caller of
\* trackFeatureUsage('localValidation')
C21_LocalStep ==
    usageCount(featureUsage', "localValidation")
        > usageCount(featureUsage, "localValidation")

\* C21: validateLocally sets validationResult to validateSAID(idNumber) for
\* the current idNumber and leaves idNumber, isValidating and apiResponse
\* unchanged, whether or not a remote request is in flight.
C21_LocalValidationFrame ==
    [][C21_LocalStep =>
          /\ validationResult' = validateSAID(ctxIdNumber)
          /\ ctxIdNumber' = ctxIdNumber
          /\ isValidating' = isValidating
          /\ apiResponse' = apiResponse]_vars

\* a local result next to a request in flight and an earlier response
C21_Witness ==
    /\ usageCount(featureUsage, "localValidation") >= 1
    /\ validationResult = validateSAID(ctxIdNumber)
    /\ validationResult.isValid = FALSE
    /\ validationResult.errors # <<>>
    /\ Len(pending) >= 1
    /\ isValidating
    /\ apiResponse # NullResponse

---------------------------------------------------------------------------
(* The usage counts of the singleton. *)

\* C22: after any sequence of trackFeatureUsage calls, the recorded count
\* of each feature equals the number of calls made with that feature name.
C22_Claim ==
    \A featureName \in FeatureNames :
        calls[featureName] >= 1
            => countOf(featureUsage, objectPrototype, featureName)
                   = JsNumber(calls[featureName])

---------------------------------------------------------------------------
(* The array getAllAnalyses returns. *)

\* C23: getAllAnalyses returns a copy of the stored list: adding to or
\* removing from the returned array never changes the number or order of
\* the analyses the repository holds and later returns, which are the
\* analyses passed to addAnalysis, in the order of the calls.
C23_ReturnsCopy ==
    arrays[RepositoryArray] = addedAnalyses

\* the caller has changed the array it was given, which held two analyses
C23_Witness ==
    /\ allAnalyses # NoArray
    /\ Len(addedAnalyses) = 2
    /\ addedAnalyses[1] # addedAnalyses[2]
    /\ arrays[allAnalyses] # addedAnalyses
    /\ Len(arrays[allAnalyses]) \in {1, 3}

---------------------------------------------------------------------------
(* The end of the asynchronous calls. *)

\* the steps in which a remote request settles and its call ends
C24_SettleStep == Len(pending') < Len(pending)

\* the envelopes a call may leave: the response of the remote function, or
\* the one built from what it threw
C24_Envelopes ==
    {remoteResponse(op, outcome) :
         op \in {"validateWithAPI", "getPersonDetails"},
         outcome \in {"success", "error"}}
        \cup {caughtResponse}

\* C24: every validateWithAPI or getPersonDetails call whose remote request
\* settles ends with isValidating false and apiResponse a non-null
\* envelope: the remote response, or {status: 'error', message} when the
\* remote call threw.
C24_SettledCall ==
    [][C24_SettleStep =>
          /\ isValidating' = FALSE
          /\ apiResponse' # NullResponse
          /\ apiResponse' \in C24_Envelopes]_vars

\* a call has ended through its catch block
C24_Witness ==
    /\ calls["apiValidation"] + calls["getPersonDetails"] >= 1
    /\ pending = <<>>
    /\ apiResponse = caughtResponse
    /\ isValidating = FALSE

---------------------------------------------------------------------------
(* The order of the messages. *)

\* the place of a message in the order of the checks; the three checks
\* that return at once share the first place
C25_Rank(message) ==
    CASE message \in {MsgNonEmpty, MsgLength, MsgCharset} -> 0
      [] message = MsgDate -> 1
      [] message = MsgCitizenship -> 2
      [] message = MsgChecksum -> 3

\* C25: the errors of validateSAID never hold a message twice and have at
\* most 3 entries; the date error comes before the citizenship error and
\* both before the checksum error; a format error (non-empty, length,
\* charset) is always the only entry.
C25_ErrorOrder ==
    Done =>
        LET errors == result.errors
        IN  /\ Len(errors) <= 3
            /\ \A i, j \in 1..Len(errors) :
                   i < j => /\ errors[i] # errors[j]
                            /\ C25_Rank(errors[i]) < C25_Rank(errors[j])
            /\ \A i \in 1..Len(errors) :
                   C25_Rank(errors[i]) = 0 => Len(errors) = 1

\* all three checks of a 13-digit string have failed
C25_Witness ==
    /\ Done
    /\ IsDigitString13(input)
    /\ result.errors = <<MsgDate, MsgCitizenship, MsgChecksum>>

---------------------------------------------------------------------------
(* The check digit of a prefix. *)

\* the check digits that pass the checksum check behind the first 12
\* digits of s
C26_PassingCheckDigits(s) ==
    {d \in 0..9 : MsgChecksum \notin ErrorSet(validateSAID(WithDigit(s, 12, d)))}

\* C26: for every 12-digit prefix, exactly one of the ten possible check
\* digits passes the checksum check of validateSAID, and it is the
\* computed check digit.  Stated on the inputs with check digit 0, one for
\* each prefix.
C26_OneCheckDigit ==
    (Done /\ IsDigitString13(input) /\ DigitAt(input, 12) = 0) =>
        /\ calculatedChecksum(input) \in 0..9
        /\ C26_PassingCheckDigits(input) = {calculatedChecksum(input)}

\* a prefix whose sum is a multiple of 10, so that the final % 10 decides
C26_Witness ==
    /\ Done
    /\ IsDigitString13(input)
    /\ DigitAt(input, 12) = 0
    /\ luhnSum(input) % 10 = 0
    /\ C26_PassingCheckDigits(input) = {0}

---------------------------------------------------------------------------
(* What the check digit detects. *)

\* the input passes the checksum check
C27_Passes ==
    Done /\ IsDigitString13(input) /\ MsgChecksum \notin ErrorSet(result)

\* C27: for every 13-digit string that passes the checksum check, changing
\* exactly one of its first 12 digits to a different digit makes
\* validateSAID report the checksum error.
C27_SingleDigitError ==
    C27_Passes =>
        \A i \in 0..11 : \A d \in (0..9) \ {DigitAt(input, i)} :
            MsgChecksum \in ErrorSet(validateSAID(WithDigit(input, i, d)))

\* a passing string whose every single-digit change is caught, the change
\* of its first digit among them
C27_Witness ==
    /\ C27_Passes
    /\ result.isValid
    /\ MsgChecksum \in ErrorSet(validateSAID(WithDigit(input, 0, 5)))
    /\ validateSAID(WithDigit(input, 0, 5)).errors = <<MsgChecksum>>

\* s with the digits at indices i and i + 1 swapped
C28_Swapped(s, i) == [s EXCEPT ![i + 1] = s[i + 2], ![i + 2] = s[i + 1]]

\* C28: for every 13-digit string that passes the checksum check, swapping
\* two adjacent unequal digits among its first 12 positions makes
\* validateSAID report the checksum error, except when the two digits are
\* 0 and 9: then the checksum check still passes.
C28_AdjacentTransposition ==
    C27_Passes =>
        \A i \in 0..10 :
            DigitAt(input, i) # DigitAt(input, i + 1) =>
                (MsgChecksum \in ErrorSet(validateSAID(C28_Swapped(input, i)))
                    <=> {DigitAt(input, i), DigitAt(input, i + 1)} # {0, 9})

\* a passing string with 9 and 0 side by side whose swap still passes, and
\* another adjacent pair whose swap is caught
C28_Witness ==
    /\ C27_Passes
    /\ \E i \in 0..10 :
           /\ {DigitAt(input, i), DigitAt(input, i + 1)} = {0, 9}
           /\ MsgChecksum \notin ErrorSet(validateSAID(C28_Swapped(input, i)))
    /\ \E i \in 0..10 :
           /\ DigitAt(input, i) # DigitAt(input, i + 1)
           /\ MsgChecksum \in ErrorSet(validateSAID(C28_Swapped(input, i)))

---------------------------------------------------------------------------
(* The results the form shows. *)

\* C29: in every reachable state of the form, a non-null validationResult
\* or apiResponse was produced for the idNumber currently held in the
\* context, also when the input is edited while a request is in flight.
C29_Claim ==
    /\ validationResult # Null => resultFor = ctxIdNumber
    /\ apiResponse # NullResponse => responseFor = ctxIdNumber

---------------------------------------------------------------------------
(* 29 February. *)

\* C30: for every 13-digit string with MM = 02 and DD = 29, validateSAID
\* accepts the date iff the two-digit year YY is divisible by 4.
C30_LeapDay ==
    (Done /\ IsDigitString13(input)
          /\ TwoDigits(input, 2) = 2 /\ TwoDigits(input, 4) = 29) =>
        (MsgDate \notin ErrorSet(result) <=> TwoDigits(input, 0) % 4 = 0)

\* 29 February 2000 is accepted
C30_Witness ==
    /\ Done
    /\ IsDigitString13(input)
    /\ TwoDigits(input, 0) = 0
    /\ TwoDigits(input, 2) = 2
    /\ TwoDigits(input, 4) = 29
    /\ MsgDate \notin ErrorSet(result)

===========================================================================
